---- MODULE Spec2Model ----
(***************************************************************************)
(* Model of the SpriteCollab client: the refresh orchestrator              *)
(* (SpriteCollab::refresh, refresh_data, refresh_data_internal), the file  *)
(* readers with their reporting hook (read_and_report_error), the deep     *)
(* validator (try_read_in_anim_data_xml) and the Redis-backed              *)
(* cache-or-compute layer (ScCache::cached_may_fail).                      *)
(*                                                                         *)
(* Every async fn is cut at its .await points: one action per stretch of   *)
(* code that runs without suspension.                                      *)
(***************************************************************************)
EXTENDS Integers, Sequences, FiniteSets, TLC

\* ------------------------------------------------------------------ bounds
NumRefreshers == 2      \* concurrent callers of SpriteCollab::refresh
NumCachers == 2         \* concurrent callers of cached_may_fail
MaxVersion == 2         \* distinct contents the upstream repository takes
NumPairs == 3           \* (entity, form) pairs of the tracker
NumKeys == 1            \* cache keys
NumTypes == 2           \* value types T that cached_may_fail is called with
NumReaders == 2         \* concurrent callers of SpriteCollab::data
MaxLines == 3           \* lines of a data file that is read again for a preview
MaxLineNo == 4          \* line numbers a parse error carries (0: none)
MaxFormLen == 2         \* length of a form path

Refreshers == 1..NumRefreshers
Cachers == 1..NumCachers
Versions == 1..MaxVersion
Pairs == 1..NumPairs
Keys == 1..NumKeys
Types == 1..NumTypes
Readers == 1..NumReaders

\* `line.truncate_ellipse(300)` in _discord_preview
PreviewMaxLen == 300

\* i32::MAX, the largest id `parse::<i32>()` in match_url accepts
I32Max == 2147483647

\* A file that has not been read (yet) in the current attempt.
Unread == 0

\* What is at repo_path when it is not a working copy with a version checked
\* out: nothing, an empty directory, or a directory that is not empty and
\* holds no repository that can be updated.
NoDir == 0
EmptyDir == -1
Leftover == -2

\* --------------------------------------------------------------- data types

\* struct SpriteCollabData: the three parsed files.  A parsed file is
\* represented by the repository version whose content it holds.
SpriteCollabData(cfg, trk, crd) ==
    [sprite_config |-> cfg, tracker |-> trk, credit_names |-> crd]

\* enum DataReadError (the variants a parser can return)
DataReadError == {"SerdeJson", "SerdeCsv", "Io", "CreditsDuplicateCreditId"}

\* The three files refresh_data_internal reads, in the order it reads them.
FilePaths == <<"sprite_config.json", "tracker.json", "credit_names.txt">>

\* DatafilesReport::Ok
ReportOk == [kind |-> "Ok"]

\* DatafilesReport::AnimDataXmlErrors(errs)
ReportAnim(errs) == [kind |-> "AnimDataXmlErrors", errs |-> errs]

\* DatafilesReport::from_data_read_error, faulty variant: I/O errors are
\* mapped to the success report (the file path and the error are lost).
FromDataReadErrorLossy(file_path, err) ==
    CASE err = "SerdeJson" -> [kind |-> "JsonDeserializeError", path |-> file_path]
      [] err = "SerdeCsv" -> [kind |-> "CsvDeserializeError", path |-> file_path]
      [] err = "Io" -> ReportOk
      [] OTHER -> [kind |-> "CreditsDuplicateCreditId", path |-> file_path]

\* DatafilesReport::from_data_read_error
FromDataReadError(file_path, err) ==
    CASE err = "SerdeJson" -> [kind |-> "JsonDeserializeError", path |-> file_path]
      [] err = "SerdeCsv" -> [kind |-> "CsvDeserializeError", path |-> file_path]
      [] err = "Io" -> [kind |-> "IoError", path |-> file_path]
      [] OTHER -> [kind |-> "CreditsDuplicateCreditId", path |-> file_path]

\* group.sprite_complete of pair i in the tracker of repository version v.
\* Version 1 is the catalog {1: complete, 2: incomplete, 3: complete}.
SpriteComplete(v, i) == IF i % (v + 1) = 0 THEN 0 ELSE 1

\* -------------------------------------------------------------------- state
VARIABLES
    state,          \* SpriteCollab.state: Mutex<State> -- the protected value
    stateLock,      \* holder of the state mutex guard (0: free)
    current_data,   \* SpriteCollab.current_data: RwLock<SpriteCollabData>
    store,          \* the Redis store: key -> serialised entry (NoEntry: absent)
    remote,         \* content of the upstream git repository
    workdir,        \* what is at repo_path: NoDir, EmptyDir, Leftover or a version
    rpc,            \* refresh(): position of each caller
    new_data,       \* refresh_data_internal: the files parsed so far
    result,         \* refresh_data: "none" | "some" | "err"
    pendErr,        \* the Report about to be sent for the failure at hand
    reports,        \* events each caller delivered to the reporting sink
    did,            \* what each refresh() call did: "publish"/"flush" events
    differed,       \* whether the published snapshot differed from the prior one
    anim,           \* deep validation: pairs opened and pairs whose file is bad
    cause,          \* the DataReadError a parser returned, and for which file
    gitlog,         \* refresh_data_internal: outcomes of its git and directory calls
    cpc,            \* cached_may_fail: position of each caller
    creq,           \* cached_may_fail: key and value type of the call
    cval,           \* cached_may_fail: the computed value
    cout,           \* cached_may_fail: lookup/compute/write outcomes and result
    optedIn,        \* keys for which some compute() has returned Cache(v)
    dpc,            \* data(): whether each caller holds its RwLockReadGuard
    seen,           \* data(): the fields each caller has read through its guard
    boot,           \* SpriteCollab::new: position of the startup
    bootlog,        \* SpriteCollab::new: the flush-all and refresh calls it made
    fin,            \* arguments of the pure function under study
    fout            \* its return value

rvars == <<rpc, new_data, result, pendErr, reports, did, differed, anim,
          cause, gitlog>>
cvars == <<cpc, creq, cval, cout, optedIn>>
dvars == <<dpc, seen>>
bvars == <<boot, bootlog>>
fvars == <<fin, fout>>
vars == <<state, stateLock, current_data, store, remote, workdir, rvars, cvars,
         dvars, bvars, fvars>>

NoEntry == <<>>
NoData == SpriteCollabData(Unread, Unread, Unread)
NoAnim == [tracker |-> Unread, opened |-> {}, bad |-> {}, errs |-> <<>>]
NoCause == [file |-> 0, err |-> "none"]
NoReq == [key |-> 0, typ |-> 0]
NoOut == [lookup |-> "none", compute |-> "none", write |-> "none", ret |-> <<>>]

\* ----------------------------------------------------------------- helpers

\* refresh(), lines 100-102: what the single-flight check leaves in `state`
\* when it does not return early -- faulty variant: it marks the call in flight.
StateAfterCheckMarking(s) == "Refreshing"

\* refresh(), lines 100-102: what the single-flight check leaves in `state`
\* when it does not return early.  The code only compares; it never stores
\* State::Refreshing.
StateAfterCheck(s) == s

\* new(), lines 85-88, faulty variant: the SpriteCollab is built whatever
\* refresh_data returned.
AfterNewRefreshLenient(res) == "up"

\* new(), lines 85-88: `refresh_data(..).await.unwrap_or_else(|| panic!(..))`
AfterNewRefresh(res) == IF res = "some" THEN "up" ELSE "panicked"

\* refresh(), line 103, faulty variant: a failed refresh_data is published
\* too.
AfterRefreshDataAlways(res) == "publish"

\* refresh(), line 103: `if let Some(new_data) = refresh_data(..).await`
AfterRefreshData(res) == IF res = "some" THEN "publish" ELSE "done"

\* try_update_repo, lines 252-261: it fails at once without a .git directory,
\* else it opens the repository, fetches master from origin and checks it out;
\* netOk says whether those calls work.
TryUpdateRepoOk(wd, netOk) == wd \in Versions /\ netOk

\* refresh_data_internal, lines 214-223, faulty variant: a failed update is
\* the error of the attempt.
AfterTryUpdateRepoFatal(ok) == IF ok THEN "read" ELSE "send_ok"

\* refresh_data_internal, lines 214-223: after try_update_repo, go on to the
\* files, or to throwing the directory away.
AfterTryUpdateRepo(ok) == IF ok THEN "read" ELSE "rmdir"

\* remove_dir_all, line 220: what is at repo_path afterwards.  A removal that
\* fails leaves the directory, as it was or with part of its content gone.
DirAfterRemove(wd, ok, partial) ==
    IF ok THEN NoDir
    ELSE IF partial /\ wd # EmptyDir THEN Leftover ELSE wd

\* refresh_data_internal, lines 220-223, faulty variant: a failed removal is
\* the error of the attempt.
AfterRemoveDirAllStrict(ok) == IF ok THEN "clone" ELSE "send_ok"

\* refresh_data_internal, lines 220-223: `if let Err(e) = remove_dir_all(..)
\* { warn!(..) }`, then create_repo in either case.
AfterRemoveDirAll(ok) == "clone"

\* create_repo, line 266: Repository::clone(clone_url, path).  git2 clones
\* into a path that does not exist or is an empty directory and refuses any
\* other; netOk says whether the remote can be fetched.
CloneOk(wd, netOk) == netOk /\ wd \in {NoDir, EmptyDir}

\* refresh(), line 108: `changed = lock_data.deref() == &new_data`
Changed(old, new) == old = new

\* The file refresh_data_internal reads next, lines 230-244.
NextFile(d) ==
    IF d.sprite_config = Unread THEN 1 ELSE IF d.tracker = Unread THEN 2 ELSE 3

\* SpriteCollabData under construction with file f parsed as content v.
WithFile(d, f, v) ==
    CASE f = 1 -> [d EXCEPT !.sprite_config = v]
      [] f = 2 -> [d EXCEPT !.tracker = v]
      [] OTHER -> [d EXCEPT !.credit_names = v]

\* Field f of a SpriteCollabData, in the order of NextFile.
Field(d, f) ==
    CASE f = 1 -> d.sprite_config
      [] f = 2 -> d.tracker
      [] OTHER -> d.credit_names

\* refresh(), line 107, faulty variant: the data is replaced whether or not
\* read guards are out.
CanWriteAlways(holders) == TRUE

\* refresh(), line 107: `slf.current_data.write().unwrap()` is granted when no
\* RwLockReadGuard of current_data is out.
CanWrite(holders) == holders = {}

\* try_read_in_anim_data_xml, lines 221-241, faulty variant: it stops at the
\* first failing pair.
RECURSIVE CollectAnimErrsFailFast(_, _, _, _)
CollectAnimErrsFailFast(v, bad, i, acc) ==
    IF i > NumPairs \/ acc.errs # <<>> THEN acc
    ELSE IF SpriteComplete(v, i) = 0
         THEN CollectAnimErrsFailFast(v, bad, i + 1, acc)
         ELSE CollectAnimErrsFailFast(v, bad, i + 1,
                [acc EXCEPT !.opened = @ \cup {i},
                            !.errs = IF i \in bad THEN Append(@, i) ELSE @])

\* try_read_in_anim_data_xml, lines 221-241: walk the pairs from i on in tracker
\* order; a pair with sprite_complete == 0 yields None without being opened,
\* any other pair is opened (AnimDataXml::open_for_form) and yields an error
\* entry when its file is bad.  `bad` is the set of pairs whose file is bad.
RECURSIVE CollectAnimErrs(_, _, _, _)
CollectAnimErrs(v, bad, i, acc) ==
    IF i > NumPairs THEN acc
    ELSE IF SpriteComplete(v, i) = 0
         THEN CollectAnimErrs(v, bad, i + 1, acc)
         ELSE CollectAnimErrs(v, bad, i + 1,
                [acc EXCEPT !.opened = @ \cup {i},
                            !.errs = IF i \in bad THEN Append(@, i) ELSE @])

\* try_read_in_anim_data_xml, line 243, faulty variant: the list is reported
\* and returned as an error even when it is empty.
ValidationFailedAlways(errs) == TRUE

\* try_read_in_anim_data_xml, line 243: `if !errs.is_empty()`
ValidationFailed(errs) == errs # <<>>

\* serde_json::to_string(&v) for a value v of type t
SerdeToString(t, v) == <<t, v>>

\* serde_json::from_str::<T>(s), faulty variant: the decoded value is not the
\* one that was serialised.
SerdeFromStrDefault(t, s) == 0

\* serde_json::from_str::<T>(s): the entry decodes only as the type it was
\* written with.
SerdeFromStrOk(t, s) == s[1] = t
SerdeFromStr(t, s) == s[2]

\* redis.set, faulty variant: the entry is written only when the key is
\* absent (SET .. NX).
SetEntryIfAbsent(s, k, e) == IF s[k] = NoEntry THEN [s EXCEPT ![k] = e] ELSE s

\* cached_may_fail, lines 169-172: `redis.set(key, save_string, None, None,
\* false)`: no expiry, no NX/XX option; whatever is under the key is replaced.
SetEntry(s, k, e) == [s EXCEPT ![k] = e]

\* Return values of cached_may_fail: Result<Result<T, E>, Self::Error>
OkOk(v) == <<"Ok", "Ok", v>>
OkErr == <<"Ok", "Err">>
OuterErr(why) == <<"Err", why>>

\* --------------------------------------------------------------------- init
\* No call of refresh(), cached_may_fail or data() is in progress.
InitCalls ==
    /\ rpc = [p \in Refreshers |-> "idle"]
    /\ new_data = [p \in Refreshers |-> NoData]
    /\ result = [p \in Refreshers |-> "none"]
    /\ pendErr = [p \in Refreshers |-> ReportOk]
    /\ reports = [p \in Refreshers |-> <<>>]
    /\ did = [p \in Refreshers |-> <<>>]
    /\ differed = [p \in Refreshers |-> FALSE]
    /\ anim = [p \in Refreshers |-> NoAnim]
    /\ cause = [p \in Refreshers |-> NoCause]
    /\ gitlog = [p \in Refreshers |-> <<>>]
    /\ cpc = [c \in Cachers |-> "idle"]
    /\ creq = [c \in Cachers |-> NoReq]
    /\ cval = [c \in Cachers |-> 0]
    /\ cout = [c \in Cachers |-> NoOut]
    /\ optedIn = [k \in Keys |-> FALSE]
    /\ dpc = [r \in Readers |-> "idle"]
    /\ seen = [r \in Readers |-> NoData]

\* The SpriteCollab that new() returns, lines 90-95, after a startup whose
\* flush-all worked, with the repository as the startup refresh left it.
InitInstance ==
    /\ state = "Ready"
    /\ stateLock = 0
    /\ current_data \in {SpriteCollabData(v, v, v) : v \in Versions}
    /\ store = [k \in Keys |-> NoEntry]
    /\ remote = current_data.tracker
    /\ workdir = remote
    /\ boot = "up"
    /\ bootlog = <<"flush", "refresh_ok">>

Init ==
    /\ InitInstance
    /\ InitCalls
    /\ fin = <<>>
    /\ fout = <<>>

\* The process as new() finds it, line 69: no SpriteCollab yet; the Redis
\* store and repo_path hold whatever an earlier process has left.
InitNew ==
    /\ state = "none"
    /\ stateLock = 0
    /\ current_data = NoData
    /\ store \in [Keys -> {NoEntry} \cup
                            {SerdeToString(t, v) : t \in Types, v \in Versions}]
    /\ remote \in Versions
    /\ workdir \in Versions \cup {NoDir, EmptyDir, Leftover}
    /\ boot = "connect"
    /\ bootlog = <<>>
    /\ InitCalls
    /\ fin = <<>>
    /\ fout = <<>>

\* ------------------------------------------------------------- environment

\* A push to the upstream repository.
UpstreamPush ==
    /\ \E v \in Versions \ {remote} : remote' = v
    /\ UNCHANGED <<state, stateLock, current_data, store, workdir, rvars, cvars,
                   dvars, bvars, fvars>>

\* ----------------------------------------------------------------- startup

\* new(), lines 72-80: configure the Redis client and wait for the connection;
\* `expect` panics when it fails.
NewConnect ==
    /\ boot = "connect"
    /\ \E ok \in BOOLEAN : boot' = IF ok THEN "flush" ELSE "panicked"
    /\ UNCHANGED <<state, stateLock, current_data, store, remote, workdir,
                   rvars, cvars, dvars, bootlog, fvars>>

\* new(), lines 82-85: `client.flushall(false).await.ok()`, a failed flush is
\* ignored; then refresh_data is called, which starts refresh_data_internal.
\* The task that runs new() is caller 1.
NewFlush ==
    /\ boot = "flush"
    /\ \E ok \in BOOLEAN :
         store' = IF ok THEN [k \in Keys |-> NoEntry] ELSE store
    /\ bootlog' = Append(bootlog, "flush")
    /\ boot' = "refresh"
    /\ rpc' = [rpc EXCEPT ![1] = "git"]
    /\ UNCHANGED <<state, stateLock, current_data, remote, workdir, new_data,
                   result, pendErr, reports, did, differed, anim, cause,
                   gitlog, cvars, dvars, fvars>>

\* new(), lines 84-95: refresh_data has returned; None panics, Some(data)
\* becomes current_data of the new SpriteCollab, whose state is State::Ready.
NewDone ==
    /\ boot = "refresh"
    /\ rpc[1] = "new"
    /\ boot' = AfterNewRefresh(result[1])
    /\ bootlog' = Append(bootlog, IF result[1] = "some" THEN "refresh_ok"
                                  ELSE "refresh_failed")
    /\ current_data' = new_data[1]
    /\ state' = IF boot' = "up" THEN "Ready" ELSE state
    /\ rpc' = [rpc EXCEPT ![1] = "idle"]
    /\ new_data' = [new_data EXCEPT ![1] = NoData]
    /\ result' = [result EXCEPT ![1] = "none"]
    /\ reports' = [reports EXCEPT ![1] = <<>>]
    /\ cause' = [cause EXCEPT ![1] = NoCause]
    /\ UNCHANGED <<stateLock, store, remote, workdir, pendErr, did, differed,
                   anim, gitlog, cvars, dvars, fvars>>

\* ----------------------------------------------------------------- refresh

\* refresh(), lines 100-102: lock the state mutex, compare the state with
\* State::Refreshing, drop the guard; return if it was Refreshing.
Begin(p) ==
    /\ rpc[p] = "idle"
    /\ boot = "up"
    /\ stateLock = 0
    /\ IF state = "Refreshing"
       THEN /\ rpc' = [rpc EXCEPT ![p] = "done"]
            /\ state' = state
       ELSE /\ rpc' = [rpc EXCEPT ![p] = "git"]
            /\ state' = StateAfterCheck(state)
    /\ UNCHANGED <<stateLock, current_data, store, remote, workdir, new_data,
                   result, pendErr, reports, did, differed, anim, cause, cvars,
                   gitlog, dvars, bvars, fvars>>

\* refresh_data_internal, lines 212-214 with try_update_repo: if repo_path
\* exists, update the working copy in place (a blocking call, no suspension);
\* if not, go on to create_dir_all.
GitUpdate(p) ==
    /\ rpc[p] = "git"
    /\ IF workdir = NoDir
       THEN /\ workdir' = workdir
            /\ rpc' = [rpc EXCEPT ![p] = "mkdir"]
            /\ gitlog' = [gitlog EXCEPT ![p] = <<"absent">>]
       ELSE \E netOk \in BOOLEAN :
              LET ok == TryUpdateRepoOk(workdir, netOk) IN
              /\ workdir' = IF ok THEN remote ELSE workdir
              /\ rpc' = [rpc EXCEPT ![p] = AfterTryUpdateRepo(ok)]
              /\ gitlog' = [gitlog EXCEPT ![p] =
                               <<IF ok THEN "update_ok"
                                 ELSE IF workdir = EmptyDir THEN "missing_git"
                                 ELSE "update_failed">>]
    /\ UNCHANGED <<state, stateLock, current_data, store, remote, new_data,
                   result, pendErr, reports, did, differed, anim, cause, cvars,
                   dvars, bvars, fvars>>

\* refresh_data_internal, lines 220-222: `remove_dir_all(&repo_path).await`;
\* its failure is only logged.
GitRemove(p) ==
    /\ rpc[p] = "rmdir"
    /\ \E ok, partial \in BOOLEAN :
         /\ workdir' = DirAfterRemove(workdir, ok, partial)
         /\ rpc' = [rpc EXCEPT ![p] = AfterRemoveDirAll(ok)]
         /\ gitlog' = [gitlog EXCEPT ![p] =
                          Append(@, IF ok THEN "remove_ok" ELSE "remove_failed")]
    /\ UNCHANGED <<state, stateLock, current_data, store, remote, new_data,
                   result, pendErr, reports, did, differed, anim, cause, cvars,
                   dvars, bvars, fvars>>

\* refresh_data_internal, line 226: `create_dir_all(&repo_path).await?`
GitMkdir(p) ==
    /\ rpc[p] = "mkdir"
    /\ \E ok \in BOOLEAN :
         /\ workdir' = IF ok /\ workdir = NoDir THEN EmptyDir ELSE workdir
         /\ rpc' = [rpc EXCEPT ![p] = IF ok THEN "clone" ELSE "send_ok"]
         /\ result' = [result EXCEPT ![p] = IF ok THEN @ ELSE "err"]
         /\ gitlog' = [gitlog EXCEPT ![p] =
                          Append(@, IF ok THEN "mkdir_ok" ELSE "mkdir_failed")]
    /\ UNCHANGED <<state, stateLock, current_data, store, remote, new_data,
                   pendErr, reports, did, differed, anim, cause, cvars,
                   dvars, bvars, fvars>>

\* refresh_data_internal, lines 223 and 227: `create_repo(..)?`; a failed
\* clone is the error of the attempt, which `?` returns to refresh_data.
GitClone(p) ==
    /\ rpc[p] = "clone"
    /\ \E netOk \in BOOLEAN :
         LET ok == CloneOk(workdir, netOk) IN
         /\ workdir' = IF ok THEN remote ELSE workdir
         /\ rpc' = [rpc EXCEPT ![p] = IF ok THEN "read" ELSE "send_ok"]
         /\ result' = [result EXCEPT ![p] = IF ok THEN @ ELSE "err"]
         /\ gitlog' = [gitlog EXCEPT ![p] =
                          Append(@, IF ok THEN "clone_ok" ELSE "clone_failed")]
    /\ UNCHANGED <<state, stateLock, current_data, store, remote, new_data,
                   pendErr, reports, did, differed, anim, cause, cvars,
                   dvars, bvars, fvars>>

\* read_and_report_error, lines 202-204, for the next of the three files of
\* refresh_data_internal, lines 230-244: run the parser; its error is kept to
\* be reported.  The parser reads the working copy as it is on disk now.  The
\* git calls are over: their outcomes are not kept any longer.
ReadFile(p) ==
    /\ rpc[p] = "read"
    /\ LET f == NextFile(new_data[p]) IN
       \/ /\ workdir \in Versions
          /\ new_data' = [new_data EXCEPT ![p] = WithFile(@, f, workdir)]
          /\ rpc' = [rpc EXCEPT ![p] = IF f = 3 THEN "validate" ELSE "read"]
          /\ pendErr' = pendErr
          /\ cause' = cause
       \/ /\ \E e \in DataReadError :
               /\ workdir \notin Versions => e = "Io"
               /\ pendErr' = [pendErr EXCEPT
                                ![p] = FromDataReadError(FilePaths[f], e)]
               /\ cause' = [cause EXCEPT ![p] = [file |-> f, err |-> e]]
          /\ rpc' = [rpc EXCEPT ![p] = "send_err"]
          /\ new_data' = [new_data EXCEPT ![p] = NoData]
    /\ gitlog' = [gitlog EXCEPT ![p] = <<>>]
    /\ UNCHANGED <<state, stateLock, current_data, store, remote, workdir,
                   result, reports, did, differed, anim, cvars,
                   dvars, bvars, fvars>>

\* try_read_in_anim_data_xml, lines 221-243: collect the failures of all
\* complete pairs; a non-empty list becomes the aggregate report to send.
Validate(p) ==
    /\ rpc[p] = "validate"
    /\ \E bad \in SUBSET Pairs :
         LET r == CollectAnimErrs(new_data[p].tracker, bad, 1,
                                  [tracker |-> new_data[p].tracker,
                                   opened |-> {}, bad |-> bad, errs |-> <<>>])
         IN /\ anim' = [anim EXCEPT ![p] = r]
            /\ IF ValidationFailed(r.errs)
               THEN /\ pendErr' = [pendErr EXCEPT ![p] = ReportAnim(r.errs)]
                    /\ rpc' = [rpc EXCEPT ![p] = "send_err"]
                    /\ result' = result
                    /\ new_data' = [new_data EXCEPT ![p] = NoData]
               ELSE /\ pendErr' = pendErr
                    /\ rpc' = [rpc EXCEPT ![p] = "send_ok"]
                    /\ result' = [result EXCEPT ![p] = "some"]
                    /\ new_data' = new_data
    /\ UNCHANGED <<state, stateLock, current_data, store, remote, workdir,
                   reports, did, differed, cause, cvars, gitlog,
                   dvars, bvars, fvars>>

\* read_and_report_error, lines 205-214, and try_read_in_anim_data_xml, lines
\* 244-249: send the report, then return the error; `?` in
\* refresh_data_internal passes it on to refresh_data.
SendErr(p) ==
    /\ rpc[p] = "send_err"
    /\ reports' = [reports EXCEPT ![p] = Append(@, pendErr[p])]
    /\ result' = [result EXCEPT ![p] = "err"]
    /\ rpc' = [rpc EXCEPT ![p] = "send_ok"]
    /\ pendErr' = [pendErr EXCEPT ![p] = ReportOk]
    /\ anim' = [anim EXCEPT ![p] = NoAnim]
    /\ UNCHANGED <<state, stateLock, current_data, store, remote, workdir,
                   new_data, did, differed, cause, cvars, gitlog,
                   dvars, bvars, fvars>>

\* refresh_data, lines 198-208: whatever refresh_data_internal returned, send
\* DatafilesReport::Ok, then return to the caller: new(), line 85, or
\* refresh(), line 103, which goes on only with Some(new_data).
SendOk(p) ==
    /\ rpc[p] = "send_ok"
    /\ reports' = [reports EXCEPT ![p] = Append(@, ReportOk)]
    /\ rpc' = [rpc EXCEPT ![p] = IF boot = "refresh" THEN "new"
                                ELSE AfterRefreshData(result[p])]
    /\ anim' = [anim EXCEPT ![p] = NoAnim]
    /\ gitlog' = [gitlog EXCEPT ![p] = <<>>]
    /\ UNCHANGED <<state, stateLock, current_data, store, remote, workdir,
                   new_data, result, pendErr, did, differed, cause, cvars,
                   dvars, bvars, fvars>>

\* refresh(), lines 104-112: lock the state mutex, take the write lock of
\* current_data, compare the published data with the new data, replace it,
\* set State::Ready.  The state guard lives to
\* the end of the `if let` block: it is dropped here only when nothing follows.
Publish(p) ==
    /\ rpc[p] = "publish"
    /\ stateLock = 0
    /\ CanWrite({r \in Readers : dpc[r] # "idle"})
    /\ current_data' = new_data[p]
    /\ state' = "Ready"
    /\ did' = [did EXCEPT ![p] = Append(@, "publish")]
    /\ differed' = [differed EXCEPT ![p] = (current_data # new_data[p])]
    /\ IF Changed(current_data, new_data[p])
       THEN /\ stateLock' = p
            /\ rpc' = [rpc EXCEPT ![p] = "flush"]
       ELSE /\ stateLock' = 0
            /\ rpc' = [rpc EXCEPT ![p] = "done"]
    /\ UNCHANGED <<store, remote, workdir, new_data, result, pendErr, reports,
                   anim, cause, cvars, gitlog, dvars, bvars, fvars>>

\* refresh(), line 113, faulty variant: the flush is issued before the new
\* data is published.
FlushBeforePublish(p) ==
    /\ rpc[p] = "publish"
    /\ did[p] = <<>>
    /\ store' = [k \in Keys |-> NoEntry]
    /\ did' = [did EXCEPT ![p] = Append(@, "flush")]
    /\ UNCHANGED <<state, stateLock, current_data, remote, workdir, rpc,
                   new_data, result, pendErr, reports, differed, anim, cause,
                   cvars, gitlog, dvars, bvars, fvars>>

\* refresh(), line 113: `slf.redis.flushall(false).await.ok()`; a failed flush
\* is ignored.
Flush(p) ==
    /\ rpc[p] = "flush"
    /\ \E ok \in BOOLEAN :
         store' = IF ok THEN [k \in Keys |-> NoEntry] ELSE store
    /\ did' = [did EXCEPT ![p] = Append(@, "flush")]
    /\ rpc' = [rpc EXCEPT ![p] = "prewarm"]
    /\ UNCHANGED <<state, stateLock, current_data, remote, workdir, new_data,
                   result, pendErr, reports, differed, anim, cause, cvars,
                   gitlog, dvars, bvars, fvars>>

\* refresh(), lines 114-117: pre_warm_discord (a no-op without the "discord"
\* feature), then the end of the `if let` block drops the state guard.
PreWarm(p) ==
    /\ rpc[p] = "prewarm"
    /\ stateLock' = 0
    /\ rpc' = [rpc EXCEPT ![p] = "done"]
    /\ UNCHANGED <<state, current_data, store, remote, workdir, new_data,
                   result, pendErr, reports, did, differed, anim, cause, cvars,
                   gitlog, dvars, bvars, fvars>>

\* refresh() has returned; the caller's locals are gone.
Return(p) ==
    /\ rpc[p] = "done"
    /\ rpc' = [rpc EXCEPT ![p] = "idle"]
    /\ new_data' = [new_data EXCEPT ![p] = NoData]
    /\ result' = [result EXCEPT ![p] = "none"]
    /\ pendErr' = [pendErr EXCEPT ![p] = ReportOk]
    /\ reports' = [reports EXCEPT ![p] = <<>>]
    /\ did' = [did EXCEPT ![p] = <<>>]
    /\ differed' = [differed EXCEPT ![p] = FALSE]
    /\ anim' = [anim EXCEPT ![p] = NoAnim]
    /\ cause' = [cause EXCEPT ![p] = NoCause]
    /\ gitlog' = [gitlog EXCEPT ![p] = <<>>]
    /\ UNCHANGED <<state, stateLock, current_data, store, remote, workdir, cvars,
                   dvars, bvars, fvars>>

\* ------------------------------------------------------------ cache layer

\* cached_may_fail, line 160, faulty variant: an entry that does not decode
\* is handed to the caller as the computation's own error.
HitResultAsInner(t, s) ==
    IF SerdeFromStrOk(t, s) THEN OkOk(SerdeFromStr(t, s)) ELSE OkErr

\* cached_may_fail, line 160: `Ok(Ok(serde_json::from_str(&red_val)?))`
HitResult(t, s) ==
    IF SerdeFromStrOk(t, s) THEN OkOk(SerdeFromStr(t, s)) ELSE OuterErr("serde")

\* cached_may_fail, lines 171-187, faulty variant: a failed write is returned.
WriteResultStrict(ok, v) == IF ok THEN OkOk(v) ELSE OuterErr("redis")

\* cached_may_fail, lines 171-187: the result of the write is only logged.
WriteResult(ok, v) == OkOk(v)

\* cached_may_fail, lines 163 and 189, faulty variant: NoCache is stored too.
WritesToStoreAlways(policy) == policy \in {"Cache", "NoCache"}

\* cached_may_fail, lines 163 and 189: only Cache(v) is written to the store.
WritesToStore(policy) == policy = "Cache"

\* cached_may_fail, lines 158-161: `self.redis.get(key).await?`, then the hit
\* branch.  The call is made with a key and a value type T; once the call has
\* its return value T plays no part any more and only the key is kept.
CacheGet(c) ==
    /\ cpc[c] = "idle"
    /\ boot = "up"
    /\ \E k \in Keys, t \in Types, getOk \in BOOLEAN :
         /\ creq' = [creq EXCEPT ![c] =
                        IF getOk /\ store[k] = NoEntry
                        THEN [key |-> k, typ |-> t] ELSE [key |-> k, typ |-> 0]]
         /\ IF ~getOk
            THEN /\ cout' = [cout EXCEPT ![c] = [@ EXCEPT
                                !.lookup = "unreachable", !.ret = OuterErr("redis")]]
                 /\ cpc' = [cpc EXCEPT ![c] = "done"]
            ELSE IF store[k] # NoEntry
            THEN /\ cout' = [cout EXCEPT ![c] = [@ EXCEPT
                                !.lookup = IF SerdeFromStrOk(t, store[k])
                                           THEN "hit" ELSE "hit_undecodable",
                                !.ret = HitResult(t, store[k])]]
                 /\ cpc' = [cpc EXCEPT ![c] = "done"]
            ELSE /\ cout' = [cout EXCEPT ![c] = [@ EXCEPT !.lookup = "miss"]]
                 /\ cpc' = [cpc EXCEPT ![c] = "compute"]
    /\ UNCHANGED <<state, stateLock, current_data, store, remote, workdir,
                   rvars, cval, optedIn, dvars, bvars, fvars>>

\* cached_may_fail, lines 162-166 and 179-190: `func().await`, computed from
\* the published data; Err(e) and NoCache(v) return at once, Cache(v) is
\* serialised and, if that works, goes on to the write.
CacheCompute(c) ==
    /\ cpc[c] = "compute"
    /\ \E policy \in {"Cache", "NoCache", "Err"}, serOk \in BOOLEAN :
         LET v == current_data.tracker IN
         /\ cout' = [cout EXCEPT ![c] = [@ EXCEPT
                        !.compute = policy,
                        !.write = IF WritesToStore(policy) /\ ~serOk
                                  THEN "ser_failed" ELSE @,
                        !.ret = IF policy = "Err" THEN OkErr
                                ELSE IF WritesToStore(policy) /\ serOk THEN @
                                ELSE OkOk(v)]]
         /\ cval' = [cval EXCEPT ![c] = IF policy = "Err" THEN 0 ELSE v]
         /\ cpc' = [cpc EXCEPT ![c] = IF WritesToStore(policy) /\ serOk
                                      THEN "set" ELSE "done"]
         /\ optedIn' = [optedIn EXCEPT ![creq[c].key] = @ \/ policy = "Cache"]
         /\ creq' = [creq EXCEPT ![c] = IF WritesToStore(policy) /\ serOk
                                        THEN @ ELSE [@ EXCEPT !.typ = 0]]
    /\ UNCHANGED <<state, stateLock, current_data, store, remote, workdir,
                   rvars, dvars, bvars, fvars>>

\* cached_may_fail, lines 167-187: `self.redis.set(key, save_string, ..).await`
CacheSet(c) ==
    /\ cpc[c] = "set"
    /\ \E setOk \in BOOLEAN :
         /\ store' = IF setOk
                     THEN SetEntry(store, creq[c].key,
                                   SerdeToString(creq[c].typ, cval[c]))
                     ELSE store
         /\ cout' = [cout EXCEPT ![c] = [@ EXCEPT
                        !.write = IF setOk THEN "written" ELSE "set_failed",
                        !.ret = WriteResult(setOk, cval[c])]]
    /\ cpc' = [cpc EXCEPT ![c] = "done"]
    /\ creq' = [creq EXCEPT ![c] = [@ EXCEPT !.typ = 0]]
    /\ UNCHANGED <<state, stateLock, current_data, remote, workdir, rvars,
                   cval, optedIn, dvars, bvars, fvars>>

\* cached_may_fail has returned; the caller's locals are gone.
CacheReturn(c) ==
    /\ cpc[c] = "done"
    /\ cpc' = [cpc EXCEPT ![c] = "idle"]
    /\ creq' = [creq EXCEPT ![c] = NoReq]
    /\ cval' = [cval EXCEPT ![c] = 0]
    /\ cout' = [cout EXCEPT ![c] = NoOut]
    /\ UNCHANGED <<state, stateLock, current_data, store, remote, workdir,
                   rvars, optedIn, dvars, bvars, fvars>>

\* ------------------------------------------------------------ data readers

\* data(), line 138: `self.current_data.read().unwrap()`; the caller gets a
\* RwLockReadGuard.  The write lock is only ever held inside Publish, so the
\* read lock is granted at once.
DataLock(r) ==
    /\ dpc[r] = "idle"
    /\ boot = "up"
    /\ dpc' = [dpc EXCEPT ![r] = "held"]
    /\ UNCHANGED <<state, stateLock, current_data, store, remote, workdir,
                   rvars, cvars, seen, bvars, fvars>>

\* The caller of data() reads the next field through its guard.
DataField(r) ==
    /\ dpc[r] = "held"
    /\ seen[r].credit_names = Unread
    /\ LET f == NextFile(seen[r]) IN
       seen' = [seen EXCEPT ![r] = WithFile(@, f, Field(current_data, f))]
    /\ UNCHANGED <<state, stateLock, current_data, store, remote, workdir,
                   rvars, cvars, dpc, bvars, fvars>>

\* The caller of data() drops its guard.
DataDrop(r) ==
    /\ dpc[r] = "held"
    /\ dpc' = [dpc EXCEPT ![r] = "idle"]
    /\ seen' = [seen EXCEPT ![r] = NoData]
    /\ UNCHANGED <<state, stateLock, current_data, store, remote, workdir,
                   rvars, cvars, bvars, fvars>>

\* ------------------------------------------------------ report rendering

\* Text is a sequence of characters; a line of n characters.
Digit == <<"0", "1", "2", "3", "4", "5", "6", "7", "8", "9">>
Line(n) == [i \in 1..n |-> Digit[(i % 10) + 1]]
Ellipsis == <<".", ".", ".">>

\* The lengths of the lines the files under study are made of.
LineLengths == {0, 2, PreviewMaxLen, PreviewMaxLen + 1}

\* The file a preview is taken from: whether read_to_string works, and the
\* lines `content.lines()` yields.
FileStates ==
    [readable : BOOLEAN,
     content : UNION {[1..n -> {Line(l) : l \in LineLengths}] : n \in 0..MaxLines}]

\* DatafilesReport with what its rendering uses: the variant, the file path
\* and, for the two parse errors, the line number of the error
\* (`err.line()`, and `err.position().map_or(0, ..)` for CSV).
DatafilesReports ==
    {ReportOk, ReportAnim(<<1>>)}
    \cup {[kind |-> k, path |-> FilePaths[f], line |-> n] :
            k \in {"JsonDeserializeError", "CsvDeserializeError"},
            f \in 1..3, n \in 0..MaxLineNo}
    \cup {[kind |-> k, path |-> FilePaths[f]] :
            k \in {"IoError", "CreditsDuplicateCreditId"}, f \in 1..3}

\* ellipse::Ellipse::truncate_ellipse, faulty variant: the line is kept whole.
TruncateEllipseNone(line, n) == line

\* ellipse::Ellipse::truncate_ellipse(len): a text of at most len characters
\* is returned as it is, a longer one is cut to len characters and "..." is
\* appended.
TruncateEllipse(line, n) ==
    IF Len(line) <= n THEN line
    ELSE IF n = 0 THEN <<>>
    ELSE SubSeq(line, 1, n) \o Ellipsis

\* Iterator::skip(k) and Iterator::next() on the lines of a file; the Option
\* that next() returns is a sequence of at most one line.
Skip(lines, k) == SubSeq(lines, k + 1, Len(lines))
NextOf(lines) == IF lines = <<>> THEN <<>> ELSE <<lines[1]>>

NoPreview == <<>>

\* DatafilesReport::_discord_preview, lines 176-186: "\nLine {}:\n```\n{}\n```"
\* is kept as the line number and the quoted text.
DiscordPreview(file, line_n) ==
    LET line == NextOf(Skip(file.content, line_n - 1)) IN
    IF line_n # 0 /\ file.readable /\ line # <<>>
    THEN [line |-> line_n,
          quoted |-> TruncateEllipse(line[1], PreviewMaxLen)]
    ELSE NoPreview

\* DatafilesReport::format_for_discord, lines 113-174: the title, and the
\* text as its parts: the banner DISCORD_UPDATE_INFO, the description and
\* the preview.
FormatForDiscord(report, file) ==
    [title |-> IF report.kind = "Ok" THEN "Failed SpriteCollab Update"
               ELSE "SpriteCollab Update Recovered",
     banner |-> IF report.kind = "Ok" THEN "none" ELSE "DISCORD_UPDATE_INFO",
     description |->
        CASE report.kind = "Ok" ->
               <<"The SpriteCollab data update is working again.">>
          [] report.kind = "AnimDataXmlErrors" ->
               <<"Failed reading one or more AnimData.xml files:", report.errs>>
          [] OTHER -> <<"Failed reading", report.path, report.kind>>,
     preview |->
        IF report.kind \in {"JsonDeserializeError", "CsvDeserializeError"}
        THEN DiscordPreview(file, report.line)
        ELSE NoPreview]

\* A report and the file at its path, to be rendered.
InitF ==
    /\ InitInstance
    /\ InitCalls
    /\ fin \in [report : DatafilesReports, file : FileStates]
    /\ fout = <<>>

\* format_for_discord is called on the report.
Render ==
    /\ "report" \in DOMAIN fin
    /\ fout = <<>>
    /\ fout' = FormatForDiscord(fin.report, fin.file)
    /\ UNCHANGED <<state, stateLock, current_data, store, remote, workdir,
                   rvars, cvars, dvars, bvars, fin>>

\* ------------------------------------------------------------- asset URLs

\* The asset kinds whose URL is on this server, and one of those whose URL is
\* on the assets server (the kinds that carry a name are left out).
ServerKinds == {"PortraitSheet", "PortraitRecolorSheet", "SpriteZip",
                "SpriteRecolorSheet"}
AssetTypes == ServerKinds \cup {"SpriteAnimDataXml"}

\* The file name of each server-hosted kind in get_url and in match_url.
FileName ==
    [k \in ServerKinds |->
        CASE k = "PortraitSheet" ->
               <<"p", "o", "r", "t", "r", "a", "i", "t", "_", "s", "h",
      "e", "e", "t", ".", "p", "n", "g">>
          [] k = "PortraitRecolorSheet" ->
               <<"p", "o", "r", "t", "r", "a", "i", "t", "_", "r", "e",
      "c", "o", "l", "o", "r", "_", "s", "h", "e", "e", "t", ".", "p", "n",
      "g">>
          [] k = "SpriteZip" ->
               <<"s", "p", "r", "i", "t", "e", "s", ".", "z", "i", "p">>
          [] OTHER ->
               <<"s", "p", "r", "i", "t", "e", "_", "r", "e", "c", "o",
      "l", "o", "r", "_", "s", "h", "e", "e", "t", ".", "p", "n", "g">>]

\* this_srv_url and Config::GitAssetsUrl
ThisSrvUrl == <<"h", "t", "t", "p", ":", "/", "/", "s">>
AssetsSrvUrl == <<"h", "t", "t", "p", ":", "/", "/", "a">>

\* The arguments get_url is studied with.
MonsterIds == {-1, 0, 25, 9999, 12345, I32Max}
FormIds == {-1, 0, 1, 12345}
FormPaths == UNION {[1..n -> FormIds] : n \in 0..MaxFormLen}

\* The texts that stand where an id stands in the paths match_url is studied
\* with: "0025", "-7", "+5", "x1", "2147483648" and the empty text.
Tokens == {<<"0", "0", "2", "5">>, <<"-", "7">>, <<"+", "5">>, <<"x", "1">>,
           <<"2", "1", "4", "7", "4", "8", "3", "6", "4", "8">>, <<>>}

StartsWith(s, pre) == Len(s) >= Len(pre) /\ SubSeq(s, 1, Len(pre)) = pre
EndsWith(s, suf) ==
    Len(s) >= Len(suf) /\ SubSeq(s, Len(s) - Len(suf) + 1, Len(s)) = suf
Drop(s, n) == SubSeq(s, n + 1, Len(s))

\* Position of the first c in s, 0 when there is none.
IndexOf(s, c) ==
    IF \E i \in 1..Len(s) : s[i] = c
    THEN CHOOSE i \in 1..Len(s) : s[i] = c /\ \A j \in 1..(i - 1) : s[j] # c
    ELSE 0

\* Itertools::join(sep)
RECURSIVE Join(_, _)
Join(parts, sep) ==
    IF parts = <<>> THEN <<>>
    ELSE IF Len(parts) = 1 THEN parts[1]
    ELSE parts[1] \o sep \o Join(Tail(parts), sep)

\* str::split(c): the pieces between the c's; a text without c is one piece.
RECURSIVE Split(_, _)
Split(s, c) ==
    LET k == IndexOf(s, c) IN
    IF k = 0 THEN <<s>>
    ELSE <<SubSeq(s, 1, k - 1)>> \o Split(Drop(s, k), c)

\* Decimal digits of n >= 0.
RECURSIVE ToDigits(_)
ToDigits(n) ==
    IF n < 10 THEN <<Digit[n + 1]>>
    ELSE ToDigits(n \div 10) \o <<Digit[(n % 10) + 1]>>

\* Left padding of the digits d of a number to width 4, the sign included.
Pad(neg, d, c) ==
    LET w == IF neg THEN 3 ELSE 4 IN
    IF Len(d) >= w THEN <<>> ELSE [i \in 1..(w - Len(d)) |-> c]

\* format!("{:4}", v), faulty variant of the format of get_url: the number is
\* padded with spaces.
Format4(v) ==
    IF v < 0 THEN Pad(TRUE, ToDigits(-v), " ") \o <<"-">> \o ToDigits(-v)
    ELSE Pad(FALSE, ToDigits(v), " ") \o ToDigits(v)

\* format!("{:04}", v): the sign, then zeros up to width 4, then the digits.
Format04(v) ==
    IF v < 0 THEN <<"-">> \o Pad(TRUE, ToDigits(-v), "0") \o ToDigits(-v)
    ELSE Pad(FALSE, ToDigits(v), "0") \o ToDigits(v)

\* The digit a character stands for.
DigitOf(c) == CHOOSE n \in 0..9 : Digit[n + 1] = c

\* Value of a text of digits.
RECURSIVE DigitsValue(_)
DigitsValue(d) ==
    IF d = <<>> THEN 0
    ELSE 10 * DigitsValue(SubSeq(d, 1, Len(d) - 1)) + DigitOf(d[Len(d)])

\* A text of digits without its leading zeros.
RECURSIVE StripZeros(_)
StripZeros(d) ==
    IF Len(d) > 1 /\ d[1] = "0" THEN StripZeros(Tail(d)) ELSE d

\* a < b for texts of digits of one length.
DigitsLess(a, b) ==
    \E i \in 1..Len(a) :
        /\ DigitOf(a[i]) < DigitOf(b[i])
        /\ \A j \in 1..(i - 1) : a[j] = b[j]

\* The digits of i32::MAX and of -i32::MIN.
MaxDigits == ToDigits(I32Max)
MinDigits == SubSeq(MaxDigits, 1, Len(MaxDigits) - 1) \o <<"8">>

\* str::parse::<i32>(): an optional sign, then at least one digit and digits
\* only, and a value that fits i32 (an overflow is an error; it is found on
\* the digits).  The Result is a sequence of at most one number.
ParseI32(s) ==
    LET signed == s # <<>> /\ s[1] \in {"-", "+"}
        neg == signed /\ s[1] = "-"
        d == IF signed THEN Tail(s) ELSE s
        z == StripZeros(d)
    IN IF d = <<>> \/ \E i \in 1..Len(d) : \A n \in 1..10 : Digit[n] # d[i]
       THEN <<>>
       ELSE IF neg /\ z = MinDigits THEN <<-I32Max - 1>>
       ELSE IF \/ Len(z) < Len(MaxDigits)
               \/ Len(z) = Len(MaxDigits) /\ (z = MaxDigits \/ DigitsLess(z, MaxDigits))
       THEN <<IF neg THEN -DigitsValue(z) ELSE DigitsValue(z)>>
       ELSE <<>>

\* get_url, lines 19-108, for the kinds of AssetTypes.
GetUrl(asset_type, this_srv_url, monster_id, path_to_form) ==
    LET joined == Join([i \in 1..Len(path_to_form) |->
                            Format04(path_to_form[i])], <<"/">>)
        form_joined == IF joined # <<>> THEN <<"/">> \o joined ELSE joined
    IN IF asset_type \in ServerKinds
       THEN this_srv_url \o <<"/", "a", "s", "s", "e", "t", "s", "/">>
            \o Format04(monster_id) \o form_joined \o <<"/">>
            \o FileName[asset_type]
       ELSE AssetsSrvUrl \o <<"/", "s", "p", "r", "i", "t", "e", "/">>
            \o Format04(monster_id) \o form_joined \o <<"/">>
            \o <<"A", "n", "i", "m", "D", "a", "t", "a", ".", "x", "m", "l">>

\* The path part of a URL on server srv.
PathPart(url, srv) == Drop(url, Len(srv))

\* match_url, lines 113-140: the routes, in the order they are added.
Routes ==
    <<[star |-> TRUE, handler |-> "PortraitSheet"],
      [star |-> TRUE, handler |-> "PortraitRecolorSheet"],
      [star |-> TRUE, handler |-> "SpriteZip"],
      [star |-> TRUE, handler |-> "SpriteRecolorSheet"],
      [star |-> FALSE, handler |-> "PortraitSheet"],
      [star |-> FALSE, handler |-> "PortraitRecolorSheet"],
      [star |-> FALSE, handler |-> "SpriteZip"],
      [star |-> FALSE, handler |-> "SpriteRecolorSheet"]>>

\* route_recognizer: the match of a path with the route
\* /assets/:monsterid/<file> or /assets/:monsterid/*formpath/<file>.  A
\* leading "/" is optional, :monsterid takes one or more characters other
\* than "/", *formpath one or more characters of any kind.  The result is a
\* sequence of at most one record of parameters; formpath is a sequence of at
\* most one text.
RouteMatch(route, path) ==
    LET p == IF path # <<>> /\ path[1] = "/" THEN Tail(path) ELSE path
        pre == <<"a", "s", "s", "e", "t", "s", "/">>
        file == FileName[route.handler]
    IN IF ~StartsWith(p, pre) THEN <<>>
       ELSE LET r == Drop(p, Len(pre))
                k == IndexOf(r, "/")
            IN IF k <= 1 THEN <<>>
               ELSE LET id == SubSeq(r, 1, k - 1)
                        rest == Drop(r, k)
                    IN IF ~route.star
                       THEN IF rest = file
                            THEN <<[monsterid |-> id, formpath |-> <<>>]>>
                            ELSE <<>>
                       ELSE IF Len(rest) > Len(file) + 1
                               /\ EndsWith(rest, <<"/">> \o file)
                            THEN <<[monsterid |-> id,
                                    formpath |->
                                      <<SubSeq(rest, 1,
                                               Len(rest) - Len(file) - 1)>>]>>
                            ELSE <<>>

\* match_url, lines 110-161.  The Option it returns is a sequence of at most
\* one record.  No two routes match the same path.
MatchUrl(path) ==
    LET hits == {i \in 1..Len(Routes) : RouteMatch(Routes[i], path) # <<>>}
    IN IF hits = {} THEN <<>>
       ELSE LET i == CHOOSE j \in hits : \A h \in hits : j <= h
                m == RouteMatch(Routes[i], path)[1]
                monster_id == ParseI32(m.monsterid)
                parts == IF m.formpath = <<>> THEN <<>>
                         ELSE Split(m.formpath[1], "/")
                parsed == [n \in 1..Len(parts) |-> ParseI32(parts[n])]
            IN IF monster_id = <<>> THEN <<>>
               ELSE IF \E n \in 1..Len(parts) : parsed[n] = <<>> THEN <<>>
               ELSE <<[monster_id |-> monster_id[1],
                       form_path |-> [n \in 1..Len(parts) |-> parsed[n][1]],
                       asset_type |-> Routes[i].handler]>>

\* A path /assets/<id>/<form>/.../<file> with any text for the ids.
RawPath(id, form, kind) ==
    <<"/", "a", "s", "s", "e", "t", "s", "/">> \o id
    \o (IF form = <<>> THEN <<>> ELSE <<"/">> \o Join(form, <<"/">>))
    \o <<"/">> \o FileName[kind]

\* Arguments for get_url, or a path for match_url.
InitU ==
    /\ InitInstance
    /\ InitCalls
    /\ fin \in [asset_type : AssetTypes, monster_id : MonsterIds,
                path_to_form : FormPaths]
              \cup [id : Tokens,
                    form : UNION {[1..n -> Tokens] : n \in 0..MaxFormLen},
                    kind : ServerKinds]
    /\ fout = <<>>

\* get_url is called.
UrlGet ==
    /\ "asset_type" \in DOMAIN fin
    /\ fout = <<>>
    /\ fout' = [url |-> GetUrl(fin.asset_type, ThisSrvUrl, fin.monster_id,
                               fin.path_to_form)]
    /\ UNCHANGED <<state, stateLock, current_data, store, remote, workdir,
                   rvars, cvars, dvars, bvars, fin>>

\* match_url is called with the path part of the URL get_url returned.
UrlMatch ==
    /\ "asset_type" \in DOMAIN fin
    /\ DOMAIN fout = {"url"}
    /\ fout' = [url |-> fout.url,
                matched |-> MatchUrl(PathPart(fout.url,
                                IF fin.asset_type \in ServerKinds
                                THEN ThisSrvUrl ELSE AssetsSrvUrl))]
    /\ UNCHANGED <<state, stateLock, current_data, store, remote, workdir,
                   rvars, cvars, dvars, bvars, fin>>

\* match_url is called with a path made of any texts.
UrlMatchRaw ==
    /\ "id" \in DOMAIN fin
    /\ fout = <<>>
    /\ fout' = [matched |-> MatchUrl(RawPath(fin.id, fin.form, fin.kind))]
    /\ UNCHANGED <<state, stateLock, current_data, store, remote, workdir,
                   rvars, cvars, dvars, bvars, fin>>

\* ---------------------------------------------------------- specification

\* The steps of the refresh() callers in R.
RefreshNext(R) ==
    \/ \E p \in R : Begin(p)
    \/ \E p \in R : GitUpdate(p)
    \/ \E p \in R : GitRemove(p)
    \/ \E p \in R : GitMkdir(p)
    \/ \E p \in R : GitClone(p)
    \/ \E p \in R : ReadFile(p)
    \/ \E p \in R : Validate(p)
    \/ \E p \in R : SendErr(p)
    \/ \E p \in R : SendOk(p)
    \/ \E p \in R : Publish(p)
    \/ \E p \in R : Flush(p)
    \/ \E p \in R : PreWarm(p)
    \/ \E p \in R : Return(p)

\* The steps of the cached_may_fail callers in C.
CacheNext(C) ==
    \/ \E c \in C : CacheGet(c)
    \/ \E c \in C : CacheCompute(c)
    \/ \E c \in C : CacheSet(c)
    \/ \E c \in C : CacheReturn(c)

\* The steps of the data() callers in D.
DataNext(D) ==
    \/ \E r \in D : DataLock(r)
    \/ \E r \in D : DataField(r)
    \/ \E r \in D : DataDrop(r)

\* Concurrent refresh() calls.
NextR == UpstreamPush \/ RefreshNext(Refreshers)
SpecR == Init /\ [][NextR]_vars

\* Concurrent cached_may_fail calls.
NextC == CacheNext(Cachers)
SpecC == Init /\ [][NextC]_vars

\* One refresh() caller next to one cached_may_fail caller.
NextM == UpstreamPush \/ RefreshNext({1}) \/ CacheNext({1})
SpecM == Init /\ [][NextM]_vars

\* The steps of refresh_data in caller p.
RefreshDataNext(p) ==
    \/ GitUpdate(p)
    \/ GitRemove(p)
    \/ GitMkdir(p)
    \/ GitClone(p)
    \/ ReadFile(p)
    \/ Validate(p)
    \/ SendErr(p)
    \/ SendOk(p)

\* The startup, new(), and the data() callers the new SpriteCollab serves.
NextN ==
    \/ UpstreamPush
    \/ NewConnect
    \/ NewFlush
    \/ RefreshDataNext(1)
    \/ NewDone
    \/ DataNext(Readers)
SpecN == InitNew /\ [][NextN]_vars

\* data() callers next to one refresh() caller.
NextD == UpstreamPush \/ RefreshNext({1}) \/ DataNext(Readers)
SpecD == Init /\ [][NextD]_vars

\* Rendering of reports for Discord.
NextF == Render
SpecF == InitF /\ [][NextF]_vars

\* get_url and match_url.
NextU == UrlGet \/ UrlMatch \/ UrlMatchRaw
SpecU == InitU /\ [][NextU]_vars

TypeOK ==
    /\ boot \in {"connect", "flush", "refresh", "up", "panicked"}
    /\ state \in IF boot = "up" THEN {"Ready", "Refreshing"} ELSE {"none"}
    /\ stateLock \in Refreshers \cup {0}
    /\ workdir \in Versions \cup {NoDir, EmptyDir, Leftover}
    /\ remote \in Versions

\* ------------------------------------------------------------------ claims

Has(seq, x) == \E i \in 1..Len(seq) : seq[i] = x

\* The positions of refresh() inside refresh_data: git, parsing, validation
\* and report delivery.
IoPhase == {"git", "rmdir", "mkdir", "clone", "read", "validate", "send_err",
            "send_ok"}

\* C1: at most one refresh() call is in its I/O phase (refresh_data) at any
\* time; a call that starts while another is in flight does no I/O.
C1_SingleFlight ==
    Cardinality({p \in Refreshers : rpc[p] \in IoPhase}) <= 1

\* C2: when a refresh() call has returned, after a successful or a failed
\* refresh_data, the refresh state is Ready.
C2_ReadyAfterRefresh ==
    \A p \in Refreshers : rpc[p] = "done" => state = "Ready"

C2_Witness ==
    \E p, q \in Refreshers :
        /\ rpc[p] = "done" /\ result[p] = "err"
        /\ rpc[q] = "done" /\ result[q] = "some"

\* What a refresh() call holds; a step of the call changes it.
Local(p) == <<rpc[p], new_data[p], result[p], reports[p], did[p]>>

\* C3: no step of a refresh() call that is inside refresh_data, or whose
\* refresh_data has failed, changes the published snapshot or the cache
\* store; a failed call goes straight to its return, with no publish and no
\* flush.
C3_FailedRefreshKeepsSnapshot ==
    [][\A p \in Refreshers :
          (Local(p)' # Local(p) /\ (rpc[p] \in IoPhase \/ result[p] = "err"))
          => /\ current_data' = current_data
             /\ store' = store
             /\ result'[p] = "err" => (rpc'[p] \in {"send_ok", "done"}
                                       /\ did'[p] = <<>>)]_vars

C3_Witness ==
    \E p \in Refreshers :
        /\ rpc[p] = "done" /\ result[p] = "err" /\ did[p] = <<>>
        /\ \E k \in Keys : store[k] # NoEntry
        /\ workdir \in Versions /\ current_data.tracker # workdir

\* C4: a successful refresh() flushes the cache store exactly once when the
\* snapshot it published differs from the prior one, and not at all when it
\* equals the prior one.
C4_FlushIffDiffers ==
    \A p \in Refreshers :
        (rpc[p] = "done" /\ result[p] = "some")
        => did[p] = IF differed[p] THEN <<"publish", "flush">> ELSE <<"publish">>

C6_OuterOnlyWhenUnreachable ==
    \A c \in Cachers :
        cpc[c] = "done"
        => /\ cout[c].ret[1] = "Err" => cout[c].lookup = "unreachable"
           /\ cout[c].ret = OkErr => cout[c].compute = "Err"

\* C6, amended: a returned call gives the outer error exactly when the lookup
\* failed or the entry it found does not decode as T, and the inner error E
\* exactly when the lookup missed and compute() failed.
C6_OuterAndInnerErrors ==
    \A c \in Cachers :
        cpc[c] = "done"
        => /\ cout[c].ret[1] = "Err"
              <=> cout[c].lookup \in {"unreachable", "hit_undecodable"}
           /\ cout[c].ret = OkErr
              <=> (cout[c].lookup = "miss" /\ cout[c].compute = "Err")

C6_Witness ==
    \E c, d \in Cachers :
        /\ cpc[c] = "done" /\ cout[c].lookup = "hit_undecodable"
        /\ cout[c].ret = OuterErr("serde")
        /\ cpc[d] = "done" /\ cout[d].compute = "Err" /\ cout[d].ret = OkErr

\* C7: as long as no compute() for a key has returned Cache(v), the key is
\* absent from the store and every call for it that reached the store has
\* invoked compute(); a call whose compute() returned NoCache(v) returns v
\* without a write.
C7_NoCacheNeverStored ==
    /\ \A k \in Keys : ~optedIn[k] => store[k] = NoEntry
    /\ \A c \in Cachers :
        /\ (cpc[c] = "done" /\ ~optedIn[creq[c].key]
                /\ cout[c].lookup # "unreachable")
           => (cout[c].lookup = "miss" /\ cout[c].compute \in {"NoCache", "Err"})
        /\ cout[c].compute = "NoCache"
           => (cpc[c] = "done" /\ cout[c].write = "none"
               /\ cout[c].ret = OkOk(cval[c]))

C7_Witness ==
    \E c, d \in Cachers :
        /\ c # d /\ creq[c].key = creq[d].key
        /\ cpc[c] = "done" /\ cout[c].compute = "NoCache"
        /\ cpc[d] = "done" /\ cout[d].compute = "NoCache"
        /\ store[creq[c].key] = NoEntry

\* C8: a returned call whose compute() returned Cache(v) gives Ok(Ok(v)),
\* whether v was written, could not be serialised or could not be written.
C8_WriteFailureIsNotAnError ==
    \A c \in Cachers :
        (cpc[c] = "done" /\ cout[c].compute = "Cache")
        => /\ cout[c].ret = OkOk(cval[c])
           /\ cout[c].write \in {"written", "ser_failed", "set_failed"}

C8_Witness ==
    \E c, d \in Cachers :
        /\ cpc[c] = "done" /\ cout[c].write = "set_failed"
        /\ cpc[d] = "done" /\ cout[d].write = "ser_failed"
        /\ cout[c].ret = OkOk(cval[c]) /\ cout[d].ret = OkOk(cval[d])

\* C9: deep validation opens exactly the pairs the tracker marks complete, and
\* its failure list is exactly the complete pairs whose file is bad, each
\* once, in tracker order; a non-empty list is the aggregate report.
C9_DeepValidationCollectsAll ==
    \A p \in Refreshers :
        anim[p].tracker # Unread
        => LET complete == {i \in Pairs : SpriteComplete(anim[p].tracker, i) # 0}
               errs == anim[p].errs
           IN /\ anim[p].opened = complete
              /\ {errs[n] : n \in 1..Len(errs)} = complete \cap anim[p].bad
              /\ \A m, n \in 1..Len(errs) : m < n => errs[m] < errs[n]
              /\ IF errs # <<>>
                 THEN rpc[p] = "send_err" /\ pendErr[p] = ReportAnim(errs)
                 ELSE rpc[p] = "send_ok" /\ result[p] = "some"

\* The catalog {1: complete, 2: incomplete, 3: complete with a bad file}.
C9_Witness ==
    \E p \in Refreshers :
        /\ anim[p].tracker = 1 /\ anim[p].bad = {2, 3}
        /\ anim[p].opened = {1, 3} /\ anim[p].errs = <<3>>
        /\ pendErr[p] = ReportAnim(<<3>>)

\* The Report variant that belongs to each DataReadError.
ReportKindFor(err) ==
    CASE err = "SerdeJson" -> "JsonDeserializeError"
      [] err = "SerdeCsv" -> "CsvDeserializeError"
      [] err = "Io" -> "IoError"
      [] err = "CreditsDuplicateCreditId" -> "CreditsDuplicateCreditId"

\* C10: when a parser has failed on one of the three files, the error is not
\* returned before its Report is sent; once returned, the Report of that error
\* kind, tagged with that file's path, is the first event of the attempt, and
\* the call publishes nothing.
C10_ReadErrorsReportedAndAbort ==
    \A p \in Refreshers :
        cause[p] # NoCause
        => IF rpc[p] = "send_err"
           THEN result[p] # "err" /\ reports[p] = <<>>
           ELSE /\ result[p] = "err"
                /\ rpc[p] \in {"send_ok", "done"}
                /\ reports[p] # <<>>
                /\ reports[p][1] = [kind |-> ReportKindFor(cause[p].err),
                                    path |-> FilePaths[cause[p].file]]
                /\ did[p] = <<>>

C10_Witness ==
    \E p \in Refreshers :
        /\ rpc[p] = "done" /\ cause[p] = [file |-> 3, err |-> "Io"]
        /\ reports[p][1] = [kind |-> "IoError", path |-> "credit_names.txt"]
        /\ did[p] = <<>>

\* C11: when repo_path exists and try_update_repo fails (no .git directory, or
\* any other failure), the call goes on to remove the directory and then to
\* clone; it returns an error only when the clone fails, and after a clone
\* that worked it goes on to the files with a version checked out.
C11_FailedUpdateFallsBackToClone ==
    \A p \in Refreshers :
        LET g == gitlog[p] IN
        (g # <<>> /\ g[1] \in {"missing_git", "update_failed"})
        => /\ rpc[p] = "rmdir" <=> Len(g) = 1
           /\ Len(g) >= 2 => g[2] \in {"remove_ok", "remove_failed"}
           /\ rpc[p] = "clone" <=> Len(g) = 2
           /\ Len(g) >= 3 => g[3] \in {"clone_ok", "clone_failed"}
           /\ g[Len(g)] = "clone_ok"
              => (rpc[p] = "read" /\ result[p] = "none" /\ workdir \in Versions)
           /\ result[p] = "err" => g[Len(g)] = "clone_failed"

C11_Witness ==
    \E p \in Refreshers :
        /\ gitlog[p] = <<"missing_git", "remove_ok", "clone_ok">>
        /\ rpc[p] = "read" /\ result[p] = "none" /\ workdir = remote

\* The git calls of refresh_data_internal, lines 213-228, started with wd at
\* repo_path and with a remote and a file system that work, get a version
\* checked out.
Recovers(wd) ==
    IF wd = NoDir
    THEN CloneOk(EmptyDir, TRUE)
    ELSE \/ TryUpdateRepoOk(wd, TRUE)
         \/ CloneOk(DirAfterRemove(wd, TRUE, FALSE), TRUE)

C13_GuardNotHeldAcrossIo ==
    \A p \in Refreshers :
        stateLock = p => rpc[p] \notin IoPhase \cup {"flush", "prewarm"}

\* C14: whatever a data() caller has read through its guard is the published
\* data as it is now, which is complete and is the data of one refresh
\* attempt: all the fields read hold the content of one repository version
\* (with one refresh() caller, an attempt reads all its files from the version
\* it checked out).
C14_ReadersSeeOneSnapshot ==
    \A r \in Readers :
        dpc[r] = "held"
        => /\ \A f \in 1..3 : Field(current_data, f) # Unread
           /\ \A f \in 1..3 :
                Field(seen[r], f) # Unread
                => Field(seen[r], f) = Field(current_data, f)
           /\ \A f, g \in 1..3 :
                (Field(seen[r], f) # Unread /\ Field(seen[r], g) # Unread)
                => Field(seen[r], f) = Field(seen[r], g)

\* One caller is half way through the published data while a refresh() call
\* waits to publish different data; another caller has read all of it.
C14_Witness ==
    \E r, q \in Readers, p \in Refreshers :
        /\ dpc[r] = "held" /\ seen[r].sprite_config # Unread
        /\ seen[r].tracker = Unread
        /\ rpc[p] = "publish" /\ new_data[p] # current_data
        /\ dpc[q] = "held" /\ seen[q] = current_data

\* C15: new() issues one flush-all and then one refresh_data before the
\* SpriteCollab exists; until it exists there is no published data and no
\* data() or cached_may_fail call is served; it exists only after a refresh
\* that succeeded, with state Ready and complete data; a failed startup
\* refresh ends in the panic.
C15_StartupFlushesAndRefreshes ==
    /\ bootlog \in {<<>>, <<"flush">>, <<"flush", "refresh_ok">>,
                    <<"flush", "refresh_failed">>}
    /\ boot = "up"
       => /\ bootlog = <<"flush", "refresh_ok">>
          /\ state = "Ready"
          /\ \A f \in 1..3 : Field(current_data, f) # Unread
    /\ boot # "up"
       => /\ current_data = NoData /\ state = "none"
          /\ \A r \in Readers : dpc[r] = "idle"
          /\ \A c \in Cachers : cpc[c] = "idle"
    /\ Has(bootlog, "refresh_failed") => boot = "panicked"
    /\ boot = "refresh" <=> bootlog = <<"flush">>

\* The SpriteCollab is up and a data() caller has read the data of the
\* startup refresh.
C15_Witness ==
    \E r \in Readers :
        /\ boot = "up" /\ bootlog = <<"flush", "refresh_ok">>
        /\ state = "Ready"
        /\ dpc[r] = "held" /\ seen[r] = current_data
        /\ current_data = SpriteCollabData(remote, remote, remote)

\* C16: the rendering of a JSON or CSV parse error always has the banner and
\* the description; it has the excerpt exactly when the line number is not 0,
\* the file can be read and has that line; the excerpt is the line itself when
\* it has at most 300 characters, else its first 300 characters followed by
\* "...".
C16_ExcerptOnlyWhenLineAvailable ==
    (fout # <<>> /\ "report" \in DOMAIN fin
        /\ fin.report.kind \in {"JsonDeserializeError", "CsvDeserializeError"})
    => LET n == fin.report.line
           lines == fin.file.content
           has == n # 0 /\ fin.file.readable /\ n <= Len(lines)
       IN /\ fout.banner = "DISCORD_UPDATE_INFO"
          /\ fout.description = <<"Failed reading", fin.report.path,
                                  fin.report.kind>>
          /\ ~has => fout.preview = NoPreview
          /\ has => /\ fout.preview # NoPreview
                    /\ fout.preview.line = n
                    /\ LET q == fout.preview.quoted IN
                       IF Len(lines[n]) <= 300
                       THEN q = lines[n]
                       ELSE /\ Len(q) = 303
                            /\ SubSeq(q, 1, 300) = SubSeq(lines[n], 1, 300)
                            /\ SubSeq(q, 301, 303) = Ellipsis

\* A JSON error at line 2 of a file whose line 2 has 301 characters.
C16_Witness ==
    /\ fout # <<>> /\ "report" \in DOMAIN fin
    /\ fin.report.kind = "JsonDeserializeError" /\ fin.report.line = 2
    /\ fin.file.readable /\ Len(fin.file.content) >= 2
    /\ Len(fin.file.content[2]) = 301
    /\ Len(fout.preview.quoted) = 303

\* C17: when a call looks up a key whose entry, written by an earlier call
\* whose compute() returned Cache(v), is still in the store, and the lookup
\* reaches the store and the entry decodes as the type asked for, the call
\* returns Ok(Ok(v)) at once: compute() is not invoked and nothing is written.
C17_HitReturnsStoredValue ==
    [][\A c \in Cachers :
          (/\ cpc[c] = "idle" /\ cpc'[c] # "idle"
           /\ store[creq'[c].key] # NoEntry
           /\ cout'[c].lookup \notin {"unreachable", "hit_undecodable"})
          => /\ \E t \in Types, v \in Versions :
                  /\ store[creq'[c].key] = SerdeToString(t, v)
                  /\ cout'[c].ret = OkOk(v)
             /\ cpc'[c] = "done"
             /\ cout'[c].compute = "none"
             /\ store' = store]_vars

\* A call has returned the value of the entry; the published data has changed
\* since the entry was written, so the value was not computed by this call.
C17_Witness ==
    \E c \in Cachers, t \in Types, v \in Versions :
        /\ cpc[c] = "done" /\ cout[c].lookup = "hit"
        /\ cout[c].compute = "none" /\ cout[c].ret = OkOk(v)
        /\ store[creq[c].key] = SerdeToString(t, v)
        /\ v # current_data.tracker

\* C18: nothing serialises the calls for one key: two calls can both miss on
\* it, both invoke compute() and both write; every write that succeeds
\* replaces what is under the key, so the entry left is that of the last
\* write.
C18_LastWriterWins ==
    [][\A c \in Cachers :
          (cpc[c] = "set" /\ cout'[c].write = "written")
          => store'[creq[c].key] = SerdeToString(creq[c].typ, cval[c])]_vars

\* Two calls have missed on one key, both have computed and both have written.
C18_Witness ==
    \E c, d \in Cachers :
        /\ c # d /\ creq[c].key = creq[d].key
        /\ cpc[c] = "done" /\ cpc[d] = "done"
        /\ cout[c].lookup = "miss" /\ cout[d].lookup = "miss"
        /\ cout[c].compute = "Cache" /\ cout[d].compute = "Cache"
        /\ cout[c].write = "written" /\ cout[d].write = "written"
        /\ store[creq[c].key] # NoEntry

\* The AnimDataXmlErrors reports among the events a call has sent.
AnimReports(p) ==
    {i \in 1..Len(reports[p]) : reports[p][i].kind = "AnimDataXmlErrors"}

\* C19: when the validator has collected a non-empty list it sends one
\* AnimDataXmlErrors report with that list and returns the error, and the call
\* publishes nothing; when the list is empty it sends nothing and returns
\* success.  A call never sends more than one such report.
C19_OneAggregateReport ==
    [][\A p \in Refreshers :
          /\ (rpc[p] = "validate" /\ rpc'[p] # "validate")
             => /\ reports'[p] = <<>>
                /\ IF anim'[p].errs # <<>>
                   THEN /\ rpc'[p] = "send_err"
                        /\ pendErr'[p] = ReportAnim(anim'[p].errs)
                   ELSE /\ rpc'[p] = "send_ok"
                        /\ result'[p] = "some"
          /\ (rpc[p] = "send_err" /\ anim[p].errs # <<>>
                /\ rpc'[p] # "send_err")
             => /\ reports'[p] = <<ReportAnim(anim[p].errs)>>
                /\ result'[p] = "err"
                /\ rpc'[p] = "send_ok"
          /\ Cardinality(AnimReports(p)') <= 1
          /\ AnimReports(p)' # {}
             => /\ result'[p] = "err" /\ did'[p] = <<>>
                /\ rpc'[p] \in {"send_ok", "done"}
          /\ result'[p] = "some" => AnimReports(p)' = {}]_vars

\* A call has returned after the validator reported pairs 1 and 3; the
\* DatafilesReport::Ok is what refresh_data sends afterwards.
C19_Witness ==
    \E p \in Refreshers :
        /\ rpc[p] = "done" /\ result[p] = "err" /\ did[p] = <<>>
        /\ reports[p] = <<ReportAnim(<<1, 3>>), ReportOk>>

\* A text that is not a number: some character of it is neither a digit nor
\* a sign.
NonNumeric(s) ==
    \E i \in 1..Len(s) :
        /\ s[i] \notin {"-", "+"}
        /\ \A n \in 1..10 : Digit[n] # s[i]

\* C20: for a server-hosted kind, a monster id >= 0 and any form path,
\* match_url on the path part of the URL of get_url returns the same monster
\* id, form path and kind; match_url on a path whose monster id or one of
\* whose form segments is not a number returns None.
C20_MatchUrlInvertsGetUrl ==
    /\ ("asset_type" \in DOMAIN fin /\ "matched" \in DOMAIN fout
            /\ fin.asset_type \in ServerKinds /\ fin.monster_id >= 0)
       => fout.matched = <<[monster_id |-> fin.monster_id,
                            form_path |-> fin.path_to_form,
                            asset_type |-> fin.asset_type]>>
    /\ ("id" \in DOMAIN fin /\ "matched" \in DOMAIN fout
            /\ (NonNumeric(fin.id)
                \/ \E i \in 1..Len(fin.form) : NonNumeric(fin.form[i])))
       => fout.matched = <<>>

\* /assets/0025/0000/12345/sprites.zip has been made by get_url and matched.
C20_Witness ==
    /\ "asset_type" \in DOMAIN fin /\ "matched" \in DOMAIN fout
    /\ fin.asset_type = "SpriteZip" /\ fin.monster_id = 25
    /\ fin.path_to_form = <<0, 12345>>
    /\ PathPart(fout.url, ThisSrvUrl) =
         <<"/", "a", "s", "s", "e", "t", "s", "/", "0", "0", "2", "5", "/",
      "0", "0", "0", "0", "/", "1", "2", "3", "4", "5", "/", "s", "p", "r",
      "i", "t", "e", "s", ".", "z", "i", "p">>
    /\ fout.matched = <<[monster_id |-> 25, form_path |-> <<0, 12345>>,
                         asset_type |-> "SpriteZip"]>>

\* ----------------------------------------------------------------------- C21
\* C21: a success Report (DatafilesReport::Ok) reaches the reporting sink only
\* for a refresh attempt that succeeded: while a call has delivered the
\* success Report, its refresh_data has Some(data) to return; an attempt that
\* failed in the git, parse or validation step has delivered none.
C21_OkReportOnlyOnSuccess ==
    \A p \in Refreshers :
        Has(reports[p], ReportOk) => result[p] = "some"

\* ----------------------------------------------------------------------- C22
\* An entry of the store whose value was computed from other data than the
\* published snapshot.  compute() derives its value from the tracker it reads
\* through data() (CacheCompute), and the entry keeps that value.
StaleEntry(k) ==
    /\ store[k] # NoEntry
    /\ store[k][2] # current_data.tracker

\* C22: under any interleaving of cached_may_fail and refresh() calls, once a
\* refresh that changed the snapshot has got through its publish and flush-all
\* and every cache call has returned, the store holds no entry whose value was
\* computed against an older snapshot than the published one.
C22_NoStaleEntryAfterChange ==
    \A p \in Refreshers :
        ( /\ rpc[p] = "done"
          /\ differed[p]
          /\ \A c \in Cachers : cpc[c] = "idle" )
        => \A k \in Keys : ~StaleEntry(k)

\* The ordering C22 relies on, on its own: a step that writes an entry writes
\* a value computed from the snapshot that is published at that moment, so
\* that a compute started before a publish does not write after it.
WritesValueOfPublishedSnapshot ==
    [][\A k \in Keys :
         (store'[k] # store[k] /\ store'[k] # NoEntry)
         => store'[k][2] = current_data.tracker]_vars

\* ----------------------------------------------------------------------- C23
\* C23: the title format_for_discord returns matches the outcome of the
\* Report: "Failed SpriteCollab Update" for every error variant and
\* "SpriteCollab Update Recovered" only for the Ok variant, in line with the
\* text returned with it (the failure notice DISCORD_UPDATE_INFO for the
\* error variants, "working again" for Ok).
C23_TitleMatchesOutcome ==
    (fout # <<>> /\ "report" \in DOMAIN fin)
    => /\ fout.title = IF fin.report.kind = "Ok"
                       THEN "SpriteCollab Update Recovered"
                       ELSE "Failed SpriteCollab Update"
       /\ (fout.title = "Failed SpriteCollab Update")
              <=> (fout.banner = "DISCORD_UPDATE_INFO")

====
